---- MODULE Spec2Model ----
(***************************************************************************)
(* Model of BaseAIAgent (src/src/agent.ts): the mention poller             *)
(* (pollMentions / checkMentions / handleTweet), the autonomous poster     *)
(* (runAutonomousMode / generateAutonomousAction) and the external calls   *)
(* they await.  Every await of the source is a suspension point; the code  *)
(* between two awaits is one atomic action.                                *)
(***************************************************************************)
EXTENDS Integers, Sequences, FiniteSets

\* ---------------------------------------------------------------- bounds
MaxId == 3            \* tweet ids are 1..MaxId
MaxBatch == 3         \* tweets in one page returned by userMentionTimeline
LiveBatch == 1        \* the same, in the specifications that run both loops
MaxRespLen == 1       \* characters in a generated text
DrawDenominator == 20 \* Math.random() * totalWeight is a multiple of 1/DrawDenominator
MaxOptions == 3       \* options in a weighted list (selector specification)
MaxWeight == 4        \* largest weight in a weighted list (selector specification)
MaxDrift == 2         \* largest excess of the running value over the total weight, in 1/DrawDenominator

\* ------------------------------------------------------- program constants
NoId == 0                      \* lastProcessedMentionId = null
RecoveryDelayMs == 60 * 1000   \* setTimeout(resolve, 60 * 1000)
AutonomousInterval == 3600     \* runAutonomousMode(interval = 3600)
PollInterval == 1200           \* pollMentions(interval = 1200)
MentionDelayMs == 1000         \* setTimeout(resolve, 1000)

VARIABLES
    \* mention poller
    processedTweets,          \* Set<string> processedTweets
    lastProcessedMentionId,   \* string | null
    ppc,                      \* where pollMentions is suspended
    since_id,                 \* since_id of the userMentionTimeline call in the cycle (NoId: not passed)
    mentions,                 \* mentions.tweets of the cycle, with the resolved author of each tweet
    idx,                      \* position of the for-loop in mentions
    response,                 \* handleTweet: the text returned by callLLM
    dispatched,               \* ids handleTweet went on to process in this cycle, in order
    processedAtStart,         \* processedTweets when the cycle began
    cycleResult,              \* "running" | "ok" | "fetchError" | "none"
    pollTimerMs,              \* delay of the timer pollMentions/checkMentions awaits (0: none)
    max_results,              \* the page size of userMentionTimeline
    pcaught,                  \* the catch block that ran last in the cycle: "none" | "handleTweet" | "reply" | "checkMentions"
    \* autonomous poster
    apc,                      \* where runAutonomousMode is suspended
    thought,                  \* the prompt generateAutonomousAction returned
    aresponse,                \* runAutonomousMode: the text returned by callLLM
    caught,                   \* which catch block ran in the cycle: "none" | "publish" | "cycle"
    sent,                     \* v2.tweet was called in the cycle
    sleepMs,                  \* delay of the timer runAutonomousMode awaits (0: none)
    \* environment
    stopRequested,            \* an external request to stop the loops has been made
    \* the weighted selector on its own
    selOptions,               \* the ordered option list
    selRandom,                \* Math.random() * totalWeight, times DrawDenominator
    selResult,                \* the prompt returned
    \* a call of the public handleTweet from outside the poller
    epc,                      \* where that call is suspended
    eid,                      \* its tweetId (NoId: no call in progress)
    \* history of the generator and reply calls
    audit,                    \* the history is kept
    genCalls,                 \* per tweet id, the calls of callLLM made by handleTweet
    replyCalls,               \* per tweet id, the calls of v2.reply
    lastFailed                \* the id whose handling by the poller failed last (NoId: none)

pollerVars == <<processedTweets, lastProcessedMentionId, ppc, since_id, mentions, idx,
                response, dispatched, processedAtStart, cycleResult, pollTimerMs,
                max_results, pcaught>>
posterVars == <<apc, thought, aresponse, caught, sent, sleepMs>>
selVars == <<selOptions, selRandom, selResult>>
extVars == <<epc, eid>>
auditVars == <<audit, genCalls, replyCalls, lastFailed>>
vars == <<pollerVars, posterVars, stopRequested, selVars, extVars, auditVars>>

\* ------------------------------------------------------------------ texts
Chars == {" ", "x"}
Texts == UNION {[1..n -> Chars] : n \in 0..MaxRespLen}

IsSpace(c) == c = " "

RECURSIVE TrimStart(_)
TrimStart(s) == IF s # <<>> /\ IsSpace(Head(s)) THEN TrimStart(Tail(s)) ELSE s

RECURSIVE TrimEnd(_)
TrimEnd(s) ==
    IF s # <<>> /\ IsSpace(s[Len(s)]) THEN TrimEnd(SubSeq(s, 1, Len(s) - 1)) ELSE s

\* String.prototype.trim
Trim(s) == TrimEnd(TrimStart(s))

\* a string is truthy iff it is not empty
Truthy(s) == s # <<>>

\* the guard without the trim:  if (response)
ShouldSend_NoTrim(s) == Truthy(s)

\* the guard  response && response.trim()
ShouldSend(s) == Truthy(s) /\ Truthy(Trim(s))

\* ------------------------------------------------------ weighted selector
weightedPrompts == <<
    [prompt |-> "Share an interesting fact or insight about Base blockchain or Layer 2 solutions", weight |-> 4],
    [prompt |-> "Discuss a recent development or trend in the crypto ecosystem", weight |-> 4],
    [prompt |-> "Explain a basic crypto concept in a simple, engaging way", weight |-> 4],
    [prompt |-> "Share tips about web3 development or using CDP tools", weight |-> 4],
    [prompt |-> "Start a discussion about the future of DeFi or NFTs", weight |-> 3],
    [prompt |-> "Ask the community about their favorite web3 tools or projects", weight |-> 3],
    [prompt |-> "Share an interesting use case of blockchain technology", weight |-> 3],
    [prompt |-> "Highlight a cool feature of Base or CDP", weight |-> 3],
    [prompt |-> "Share what you can do as an AI agent on Base", weight |-> 2],
    [prompt |-> "Explain one of your capabilities or tools", weight |-> 2],
    [prompt |-> "Share a success story or interesting interaction", weight |-> 2],
    [prompt |-> "Deploy a creative meme token with an interesting concept", weight |-> 1],
    [prompt |-> "Create an NFT collection about current crypto trends", weight |-> 1] >>

NoThought == ""
NoDraw == -1

\* weightedPrompts.reduce((sum, item) => sum + item.weight, 0)
RECURSIVE SumWeights(_, _)
SumWeights(opts, n) == IF n = 0 THEN 0 ELSE SumWeights(opts, n - 1) + opts[n].weight

totalWeight(opts) == SumWeights(opts, Len(opts))

\* the values Math.random() * totalWeight takes, in units of 1/DrawDenominator:
\* Math.random() is in [0, 1)
Draws(opts) == 0 .. (totalWeight(opts) * DrawDenominator - 1)

\* the same when the subtractions do not add up to totalWeight exactly: the
\* running value may exceed the sum of the weights by up to MaxDrift
DriftDraws(opts) == 0 .. (totalWeight(opts) * DrawDenominator + MaxDrift)

\* the walk with the fallback  return weightedPrompts[weightedPrompts.length - 1].prompt
RECURSIVE Walk_LastFallback(_, _, _)
Walk_LastFallback(opts, i, rnd) ==
    IF i > Len(opts)
    THEN opts[Len(opts)].prompt
    ELSE LET r == rnd - opts[i].weight * DrawDenominator
         IN  IF r <= 0 THEN opts[i].prompt ELSE Walk_LastFallback(opts, i + 1, r)

\* the walk with  if (random < 0)
RECURSIVE Walk_Strict(_, _, _)
Walk_Strict(opts, i, rnd) ==
    IF i > Len(opts)
    THEN opts[1].prompt
    ELSE LET r == rnd - opts[i].weight * DrawDenominator
         IN  IF r < 0 THEN opts[i].prompt ELSE Walk_Strict(opts, i + 1, r)

\* for (const {prompt, weight} of weightedPrompts) { random -= weight; if (random <= 0) return prompt }
\* return weightedPrompts[0].prompt
RECURSIVE Walk(_, _, _)
Walk(opts, i, rnd) ==
    IF i > Len(opts)
    THEN opts[1].prompt
    ELSE LET r == rnd - opts[i].weight * DrawDenominator
         IN  IF r <= 0 THEN opts[i].prompt ELSE Walk(opts, i + 1, r)

SelectPrompt(opts, rnd) == Walk(opts, 1, rnd)

\* --------------------------------------------------------- fetched tweets
\* tweet.referenced_tweets as the set of its types: none, or a retweet
RefTypeSets == {{}, {"retweet"}}

\* one tweet of mentions.tweets; author is whether mentions.includes.users holds
\* a user whose id is the tweet's author_id
Tweets == [id : 1..MaxId, referenced_tweets : RefTypeSets, author : BOOLEAN]

DistinctIds(b) == \A i, j \in 1..Len(b) : i # j => b[i].id # b[j].id

\* the pages userMentionTimeline can return: distinct tweets, all newer than since_id
Batches(since, size) ==
    { b \in UNION {[1..n -> Tweets] : n \in 0..size} :
        DistinctIds(b) /\ \A i \in 1..Len(b) : b[i].id > since }

\* the test against another type name:  ref.type === "retweeted"
isRetweet_OtherType(tweet) == "retweeted" \in tweet.referenced_tweets

\* tweet.referenced_tweets?.some(ref => ref.type === "retweet")
isRetweet(tweet) == "retweet" \in tweet.referenced_tweets

\* the same without the test  if (author)
RECURSIVE NextHandled_NoAuthorCheck(_, _)
NextHandled_NoAuthorCheck(batch, i) ==
    IF i > Len(batch) THEN i
    ELSE IF isRetweet(batch[i]) THEN NextHandled_NoAuthorCheck(batch, i + 1)
    ELSE i

\* the first tweet at or after position i that reaches handleTweet
RECURSIVE NextHandled(_, _)
NextHandled(batch, i) ==
    IF i > Len(batch) THEN i
    ELSE IF isRetweet(batch[i]) \/ ~batch[i].author THEN NextHandled(batch, i + 1)
    ELSE i

\* ---------------------------------------------------------- mention poller
\* one more call for tweetId in the history calls
Count(calls, tweetId) ==
    IF audit THEN [calls EXCEPT ![tweetId] = @ + 1] ELSE calls

\* the handling of tweetId has failed: lastFailed after it
Failed(tweetId) ==
    IF audit THEN tweetId ELSE lastFailed

\* handleTweet without the processedTweets.has(tweetId) test
handleTweet_NoGate(tweetId) ==
    /\ processedTweets' = processedTweets \cup {tweetId}
    /\ dispatched' = Append(dispatched, tweetId)
    /\ ppc' = "llm"
    /\ pollTimerMs' = 0
    /\ genCalls' = Count(genCalls, tweetId)

\* handleTweet up to its first await: an id already in processedTweets returns at
\* once (and checkMentions goes on to its delay); otherwise the id is added and
\* callLLM is awaited
handleTweet(tweetId) ==
    IF tweetId \in processedTweets
    THEN /\ ppc' = "delay"
         /\ pollTimerMs' = MentionDelayMs
         /\ UNCHANGED <<processedTweets, dispatched, genCalls>>
    ELSE /\ processedTweets' = processedTweets \cup {tweetId}
         /\ dispatched' = Append(dispatched, tweetId)
         /\ ppc' = "llm"
         /\ pollTimerMs' = 0
         /\ genCalls' = Count(genCalls, tweetId)

\* the for-loop of checkMentions from position i up to its next await; when the
\* loop is over checkMentions returns and pollMentions awaits the interval timer
ForLoop(batch, i) ==
    LET j == NextHandled(batch, i)
    IN  /\ idx' = j
        /\ response' = <<>>
        /\ IF j > Len(batch)
           THEN /\ ppc' = "sleep"
                /\ pollTimerMs' = PollInterval * 1000
                /\ cycleResult' = "ok"
                /\ UNCHANGED <<processedTweets, dispatched, genCalls>>
           ELSE /\ handleTweet(batch[j].id)
                /\ UNCHANGED cycleResult

\* checkMentions is called and awaits userMentionTimeline
checkMentions ==
    /\ ppc' = "fetch"
    /\ since_id' = lastProcessedMentionId
    /\ cycleResult' = "running"
    /\ mentions' = <<>>
    /\ idx' = 0
    /\ dispatched' = <<>>
    /\ response' = <<>>
    /\ pollTimerMs' = 0
    /\ processedAtStart' = processedTweets
    /\ pcaught' = "none"
    /\ UNCHANGED <<processedTweets, lastProcessedMentionId, max_results>>

\* pollMentions is called
pollMentions ==
    /\ ppc = "idle"
    /\ checkMentions
    /\ UNCHANGED <<posterVars, stopRequested, selVars, extVars, auditVars>>

\* checkMentions called from a setInterval: the timer fires whether or not the
\* previous call has returned
PollTimerFires_SetInterval ==
    /\ ppc # "idle"
    /\ checkMentions
    /\ UNCHANGED <<posterVars, stopRequested, selVars, extVars, auditVars>>

\* the interval timer of pollMentions fires: while (true) calls checkMentions again
PollTimerFires ==
    /\ ppc = "sleep"
    /\ checkMentions
    /\ UNCHANGED <<posterVars, stopRequested, selVars, extVars, auditVars>>

\* userMentionTimeline returns a page and the cursor is set from it, also when
\* the page is empty:  this.lastProcessedMentionId = mentions.meta.newest_id
FetchReturns_NewestId ==
    /\ ppc = "fetch"
    /\ \E batch \in Batches(since_id, max_results) :
          /\ mentions' = batch
          /\ ForLoop(batch, 1)
          /\ lastProcessedMentionId' =
                IF batch = <<>> THEN NoId
                ELSE CHOOSE m \in {batch[i].id : i \in 1..Len(batch)} :
                        \A i \in 1..Len(batch) : batch[i].id <= m
    /\ UNCHANGED <<since_id, processedAtStart, pcaught, max_results>>
    /\ UNCHANGED <<posterVars, stopRequested, selVars, extVars, audit, replyCalls, lastFailed>>

\* userMentionTimeline returns a page
FetchReturns ==
    /\ ppc = "fetch"
    /\ \E batch \in Batches(since_id, max_results) :
          /\ mentions' = batch
          /\ ForLoop(batch, 1)
    /\ UNCHANGED <<lastProcessedMentionId, since_id, processedAtStart, pcaught, max_results>>
    /\ UNCHANGED <<posterVars, stopRequested, selVars, extVars, audit, replyCalls, lastFailed>>

\* userMentionTimeline throws and checkMentions has no try/catch: the
\* rejection ends pollMentions
FetchThrows_Uncaught ==
    /\ ppc = "fetch"
    /\ ppc' = "rejected"
    /\ pollTimerMs' = 0
    /\ cycleResult' = "fetchError"
    /\ pcaught' = "none"
    /\ UNCHANGED <<processedTweets, lastProcessedMentionId, since_id, mentions, idx,
                   response, dispatched, processedAtStart, max_results>>
    /\ UNCHANGED <<posterVars, stopRequested, selVars, extVars, auditVars>>

\* userMentionTimeline throws: the catch of checkMentions logs and returns
FetchThrows ==
    /\ ppc = "fetch"
    /\ ppc' = "sleep"
    /\ pollTimerMs' = PollInterval * 1000
    /\ cycleResult' = "fetchError"
    /\ pcaught' = "checkMentions"
    /\ UNCHANGED <<processedTweets, lastProcessedMentionId, since_id, mentions, idx,
                   response, dispatched, processedAtStart, max_results>>
    /\ UNCHANGED <<posterVars, stopRequested, selVars, extVars, auditVars>>

\* handleTweet: callLLM returns a text; a sendable one is passed to v2.reply
ReplyLLMReturns ==
    /\ ppc = "llm"
    /\ \E text \in Texts :
          IF ShouldSend(text)
          THEN /\ ppc' = "reply"
               /\ response' = text
               /\ pollTimerMs' = 0
               /\ replyCalls' = Count(replyCalls, mentions[idx].id)
          ELSE /\ ppc' = "delay"
               /\ response' = <<>>
               /\ pollTimerMs' = MentionDelayMs
               /\ UNCHANGED replyCalls
    /\ UNCHANGED <<processedTweets, lastProcessedMentionId, since_id, mentions, idx,
                   dispatched, processedAtStart, cycleResult, max_results>>
    /\ UNCHANGED pcaught

    /\ UNCHANGED <<posterVars, stopRequested, selVars, extVars, audit, genCalls, lastFailed>>

\* handleTweet: callLLM throws and handleTweet has no outer try/catch: the catch
\* of checkMentions ends the cycle
ReplyLLMThrows_Propagates ==
    /\ ppc = "llm"
    /\ ppc' = "sleep"
    /\ response' = <<>>
    /\ pollTimerMs' = PollInterval * 1000
    /\ cycleResult' = "aborted"
    /\ pcaught' = "checkMentions"
    /\ UNCHANGED <<processedTweets, lastProcessedMentionId, since_id, mentions, idx,
                   dispatched, processedAtStart, max_results>>
    /\ lastFailed' = Failed(mentions[idx].id)
    /\ UNCHANGED <<posterVars, stopRequested, selVars, extVars, audit, genCalls, replyCalls>>

\* handleTweet: callLLM throws; the outer catch of handleTweet logs and takes
\* the id out of processedTweets so that it is tried again
ReplyLLMThrows_Unmarks ==
    /\ ppc = "llm"
    /\ ppc' = "delay"
    /\ response' = <<>>
    /\ pollTimerMs' = MentionDelayMs
    /\ processedTweets' = processedTweets \ {mentions[idx].id}
    /\ UNCHANGED <<lastProcessedMentionId, since_id, mentions, idx,
                   dispatched, processedAtStart, cycleResult, max_results>>
    /\ pcaught' = "handleTweet"
    /\ lastFailed' = Failed(mentions[idx].id)
    /\ UNCHANGED <<posterVars, stopRequested, selVars, extVars, audit, genCalls, replyCalls>>

\* handleTweet: callLLM throws; the outer catch of handleTweet logs and returns
ReplyLLMThrows ==
    /\ ppc = "llm"
    /\ ppc' = "delay"
    /\ response' = <<>>
    /\ pollTimerMs' = MentionDelayMs
    /\ UNCHANGED <<processedTweets, lastProcessedMentionId, since_id, mentions, idx,
                   dispatched, processedAtStart, cycleResult, max_results>>
    /\ pcaught' = "handleTweet"

    /\ lastFailed' = Failed(mentions[idx].id)
    /\ UNCHANGED <<posterVars, stopRequested, selVars, extVars, audit, genCalls, replyCalls>>

\* handleTweet: v2.reply returns and the for-loop goes on without the 1 second
\* delay
ReplyReturns_NoDelay ==
    /\ ppc = "reply"
    /\ ForLoop(mentions, idx + 1)
    /\ UNCHANGED <<lastProcessedMentionId, since_id, mentions, processedAtStart, pcaught, max_results>>
    /\ UNCHANGED <<posterVars, stopRequested, selVars, extVars, audit, replyCalls, lastFailed>>

\* handleTweet: v2.reply returns
ReplyReturns ==
    /\ ppc = "reply"
    /\ ppc' = "delay"
    /\ response' = <<>>
    /\ pollTimerMs' = MentionDelayMs
    /\ UNCHANGED <<processedTweets, lastProcessedMentionId, since_id, mentions, idx,
                   dispatched, processedAtStart, cycleResult, max_results>>
    /\ UNCHANGED pcaught

    /\ UNCHANGED <<posterVars, stopRequested, selVars, extVars, auditVars>>

\* handleTweet: v2.reply throws and has no try/catch of its own: the outer catch
\* of handleTweet logs
ReplyThrows_Outer ==
    /\ ppc = "reply"
    /\ ppc' = "delay"
    /\ response' = <<>>
    /\ pollTimerMs' = MentionDelayMs
    /\ UNCHANGED <<processedTweets, lastProcessedMentionId, since_id, mentions, idx,
                   dispatched, processedAtStart, cycleResult, max_results>>
    /\ pcaught' = "handleTweet"
    /\ lastFailed' = Failed(mentions[idx].id)
    /\ UNCHANGED <<posterVars, stopRequested, selVars, extVars, audit, genCalls, replyCalls>>

\* handleTweet: v2.reply throws; the inner catch of handleTweet logs
ReplyThrows ==
    /\ ppc = "reply"
    /\ ppc' = "delay"
    /\ response' = <<>>
    /\ pollTimerMs' = MentionDelayMs
    /\ UNCHANGED <<processedTweets, lastProcessedMentionId, since_id, mentions, idx,
                   dispatched, processedAtStart, cycleResult, max_results>>
    /\ pcaught' = "reply"

    /\ lastFailed' = Failed(mentions[idx].id)
    /\ UNCHANGED <<posterVars, stopRequested, selVars, extVars, audit, genCalls, replyCalls>>

\* the 1 second timer after handleTweet fires: the for-loop goes on
DelayElapsed ==
    /\ ppc = "delay"
    /\ ForLoop(mentions, idx + 1)
    /\ UNCHANGED <<lastProcessedMentionId, since_id, mentions, processedAtStart, pcaught, max_results>>
    /\ UNCHANGED <<posterVars, stopRequested, selVars, extVars, audit, replyCalls, lastFailed>>

PollerNext ==
    \/ pollMentions
    \/ PollTimerFires
    \/ FetchReturns
    \/ FetchThrows
    \/ ReplyLLMReturns
    \/ ReplyLLMThrows
    \/ ReplyReturns
    \/ ReplyThrows
    \/ DelayElapsed

\* the state of a new BaseAIAgent, as the poller sees it; size is the page size
PollerStart(size) ==
    /\ processedTweets = {}
    /\ lastProcessedMentionId = NoId
    /\ ppc = "idle"
    /\ since_id = NoId
    /\ mentions = <<>>
    /\ idx = 0
    /\ response = <<>>
    /\ dispatched = <<>>
    /\ processedAtStart = {}
    /\ cycleResult = "none"
    /\ pollTimerMs = 0
    /\ pcaught = "none"
    /\ max_results = size

\* -------------------------------------------------------- autonomous poster
\* the prompts generateAutonomousAction can return: one draw, one walk
SelectablePrompts ==
    { SelectPrompt(weightedPrompts, rnd) : rnd \in Draws(weightedPrompts) }

generateAutonomousAction == thought' \in SelectablePrompts

\* one iteration of while (true) up to its first await
BeginCycle ==
    /\ generateAutonomousAction
    /\ apc' = "select"
    /\ aresponse' = <<>>
    /\ caught' = "none"
    /\ sent' = FALSE
    /\ sleepMs' = 0

\* runAutonomousMode is called
runAutonomousMode ==
    /\ apc = "idle"
    /\ BeginCycle
    /\ UNCHANGED <<pollerVars, stopRequested, selVars, extVars, auditVars>>

\* the timer of runAutonomousMode fires: the next iteration starts
SleepElapsed ==
    /\ apc = "sleep"
    /\ BeginCycle
    /\ UNCHANGED <<pollerVars, stopRequested, selVars, extVars, auditVars>>

\* the awaited generateAutonomousAction resolves; the prompt is built and callLLM awaited
CallLLM ==
    /\ apc = "select"
    /\ apc' = "generate"
    /\ thought' = NoThought
    /\ UNCHANGED <<aresponse, caught, sent, sleepMs>>
    /\ UNCHANGED <<pollerVars, stopRequested, selVars, extVars, auditVars>>

\* callLLM returns a text: a sendable one is passed to v2.tweet, otherwise the
\* iteration ends with the normal sleep
GenerateReturns ==
    /\ apc = "generate"
    /\ \E text \in Texts :
          IF ShouldSend(text)
          THEN /\ apc' = "publish"
               /\ aresponse' = text
               /\ sent' = TRUE
               /\ sleepMs' = 0
          ELSE /\ apc' = "sleep"
               /\ aresponse' = <<>>
               /\ sent' = FALSE
               /\ sleepMs' = AutonomousInterval * 1000
    /\ UNCHANGED <<thought, caught>>
    /\ UNCHANGED <<pollerVars, stopRequested, selVars, extVars, auditVars>>

\* callLLM throws and the catch sleeps the normal interval
GenerateThrows_NormalSleep ==
    /\ apc = "generate"
    /\ apc' = "sleep"
    /\ caught' = "cycle"
    /\ sleepMs' = AutonomousInterval * 1000
    /\ UNCHANGED <<thought, aresponse, sent>>
    /\ UNCHANGED <<pollerVars, stopRequested, selVars, extVars, auditVars>>

\* callLLM throws: the catch of the while body logs and sleeps 60 s
GenerateThrows ==
    /\ apc = "generate"
    /\ apc' = "sleep"
    /\ caught' = "cycle"
    /\ sleepMs' = RecoveryDelayMs
    /\ UNCHANGED <<thought, aresponse, sent>>
    /\ UNCHANGED <<pollerVars, stopRequested, selVars, extVars, auditVars>>

\* v2.tweet returns and the id of the new tweet is put into processedTweets
PublishReturns_Marks ==
    /\ apc = "publish"
    /\ apc' = "sleep"
    /\ aresponse' = <<>>
    /\ sleepMs' = AutonomousInterval * 1000
    /\ \E id \in 1..MaxId : processedTweets' = processedTweets \cup {id}
    /\ UNCHANGED <<thought, caught, sent>>
    /\ UNCHANGED <<lastProcessedMentionId, ppc, since_id, mentions, idx, response,
                   dispatched, processedAtStart, cycleResult, pollTimerMs,
                   max_results, pcaught>>
    /\ UNCHANGED <<stopRequested, selVars, extVars, auditVars>>

\* v2.tweet returns: the normal sleep follows
PublishReturns ==
    /\ apc = "publish"
    /\ apc' = "sleep"
    /\ aresponse' = <<>>
    /\ sleepMs' = AutonomousInterval * 1000
    /\ UNCHANGED <<thought, caught, sent>>
    /\ UNCHANGED <<pollerVars, stopRequested, selVars, extVars, auditVars>>

\* v2.tweet throws and the catch rethrows: runAutonomousMode ends
PublishThrows_Fatal ==
    /\ apc = "publish"
    /\ apc' = "rejected"
    /\ caught' = "publish"
    /\ sleepMs' = 0
    /\ UNCHANGED <<thought, aresponse, sent>>
    /\ UNCHANGED <<pollerVars, stopRequested, selVars, extVars, auditVars>>

\* v2.tweet throws: the inner catch logs, and the normal sleep follows
PublishThrows ==
    /\ apc = "publish"
    /\ apc' = "sleep"
    /\ aresponse' = <<>>
    /\ caught' = "publish"
    /\ sleepMs' = AutonomousInterval * 1000
    /\ UNCHANGED <<thought, sent>>
    /\ UNCHANGED <<pollerVars, stopRequested, selVars, extVars, auditVars>>

PosterNext ==
    \/ runAutonomousMode
    \/ SleepElapsed
    \/ CallLLM
    \/ GenerateReturns
    \/ GenerateThrows
    \/ PublishReturns
    \/ PublishThrows

PosterInit ==
    /\ apc = "idle"
    /\ thought = NoThought
    /\ aresponse = <<>>
    /\ caught = "none"
    /\ sent = FALSE
    /\ sleepMs = 0

\* ------------------------------------------- handleTweet called from outside
\* handleTweet is called, tests processedTweets.has(tweetId) and awaits callLLM
\* without having added the id
ExtHandleTweet_AddAfterAwait ==
    /\ epc = "idle"
    /\ \E tweetId \in 1..MaxId :
          IF tweetId \in processedTweets
          THEN UNCHANGED <<epc, eid, genCalls>>
          ELSE /\ epc' = "llm"
               /\ eid' = tweetId
               /\ genCalls' = Count(genCalls, tweetId)
    /\ UNCHANGED <<pollerVars, posterVars, stopRequested, selVars, audit, replyCalls, lastFailed>>

\* handleTweet is called by a user of the class while the poller runs: up to
\* its first await, as in the call made by checkMentions
ExtHandleTweet ==
    /\ epc = "idle"
    /\ \E tweetId \in 1..MaxId :
          IF tweetId \in processedTweets
          THEN UNCHANGED <<processedTweets, epc, eid, genCalls>>
          ELSE /\ processedTweets' = processedTweets \cup {tweetId}
               /\ epc' = "llm"
               /\ eid' = tweetId
               /\ genCalls' = Count(genCalls, tweetId)
    /\ UNCHANGED <<lastProcessedMentionId, ppc, since_id, mentions, idx, response,
                   dispatched, processedAtStart, cycleResult, pollTimerMs,
                   max_results, pcaught>>
    /\ UNCHANGED <<posterVars, stopRequested, selVars, audit, replyCalls, lastFailed>>

\* that call: callLLM returns a text; a sendable one is passed to v2.reply
ExtLLMReturns ==
    /\ epc = "llm"
    /\ \E text \in Texts :
          IF ShouldSend(text)
          THEN /\ epc' = "reply"
               /\ replyCalls' = Count(replyCalls, eid)
               /\ UNCHANGED eid
          ELSE /\ epc' = "idle"
               /\ eid' = NoId
               /\ UNCHANGED replyCalls
    /\ UNCHANGED <<pollerVars, posterVars, stopRequested, selVars, audit, genCalls, lastFailed>>

\* that call: callLLM throws; the outer catch logs and handleTweet returns
ExtLLMThrows ==
    /\ epc = "llm"
    /\ epc' = "idle"
    /\ eid' = NoId
    /\ UNCHANGED <<pollerVars, posterVars, stopRequested, selVars, auditVars>>

\* that call: v2.reply returns, or throws and the inner catch logs; handleTweet
\* returns
ExtReplySettles ==
    /\ epc = "reply"
    /\ epc' = "idle"
    /\ eid' = NoId
    /\ UNCHANGED <<pollerVars, posterVars, stopRequested, selVars, auditVars>>

ExtNext ==
    \/ ExtHandleTweet
    \/ ExtLLMReturns
    \/ ExtLLMThrows
    \/ ExtReplySettles

\* no call from outside is in progress
ExtInit ==
    /\ epc = "idle"
    /\ eid = NoId

\* no call has been made; keep says whether the history is kept
NoCalls(keep) ==
    /\ audit = keep
    /\ genCalls = [id \in 1..MaxId |-> 0]
    /\ replyCalls = [id \in 1..MaxId |-> 0]
    /\ lastFailed = NoId

\* ------------------------------------------------------------- environment
\* somebody asks the process to stop; neither loop reads the request
RequestStop ==
    /\ ~stopRequested
    /\ stopRequested' = TRUE
    /\ UNCHANGED <<pollerVars, posterVars, selVars, extVars, auditVars>>

\* ------------------------------------------------ the selector on its own
\* ordered option lists with positive integer weights; the i-th prompt is "p<i>"
PromptNames == <<"p1", "p2", "p3", "p4", "p5">>

OptionLists ==
    UNION { { [i \in 1..n |-> [prompt |-> PromptNames[i], weight |-> w[i]]] :
                w \in [1..n -> 1..MaxWeight] } : n \in 1..MaxOptions }

\* the selector applied to selOptions and the draw selRandom
Select ==
    /\ selResult = NoThought
    /\ selResult' = SelectPrompt(selOptions, selRandom)
    /\ UNCHANGED <<selOptions, selRandom, pollerVars, posterVars, stopRequested, extVars, auditVars>>

NoSelector ==
    /\ selOptions = <<>>
    /\ selRandom = NoDraw
    /\ selResult = NoThought

\* ---------------------------------------------------------- specifications
\* a new BaseAIAgent whose timeline returns pages of at most size tweets
Start(size) ==
    /\ PollerStart(size) /\ PosterInit /\ stopRequested = FALSE /\ NoSelector
    /\ ExtInit /\ NoCalls(FALSE)

\* both loops started on one agent; pages of at most LiveBatch tweets
Init == Start(LiveBatch)

Next == PollerNext \/ PosterNext

Spec == Init /\ [][Next]_vars

\* the same, every awaited call and timer eventually completing
FairSpec == Spec /\ WF_vars(PollerNext) /\ WF_vars(PosterNext)

\* both loops and a request to stop them, which may arrive at any time
StopNext == Next \/ RequestStop

StopSpec == Init /\ [][StopNext]_vars /\ WF_vars(PollerNext) /\ WF_vars(PosterNext)

\* only pollMentions is started; pages of at most MaxBatch tweets
PollerInit == Start(MaxBatch)

PollerSpec == PollerInit /\ [][PollerNext]_vars

\* the selector applied to every option list and every draw within the bounds
SelInit ==
    /\ PollerStart(MaxBatch) /\ PosterInit /\ stopRequested = FALSE
    /\ ExtInit /\ NoCalls(FALSE)
    /\ selOptions \in OptionLists
    /\ selRandom \in Draws(selOptions)
    /\ selResult = NoThought

SelSpec == SelInit /\ [][Select]_vars

\* the selector applied to every option list and every draw, drift included
DriftInit ==
    /\ PollerStart(MaxBatch) /\ PosterInit /\ stopRequested = FALSE
    /\ ExtInit /\ NoCalls(FALSE)
    /\ selOptions \in OptionLists
    /\ selRandom \in DriftDraws(selOptions)
    /\ selResult = NoThought

DriftSpec == DriftInit /\ [][Select]_vars

\* pollMentions is started and handleTweet is also called from outside, one
\* call at a time; pages of at most LiveBatch tweets; the history of calls is kept
HandlerInit ==
    /\ PollerStart(LiveBatch) /\ PosterInit /\ stopRequested = FALSE /\ NoSelector
    /\ ExtInit /\ NoCalls(TRUE)

HandlerNext == PollerNext \/ ExtNext

HandlerSpec == HandlerInit /\ [][HandlerNext]_vars

\* ================================================================= claims

\* ids of a sequence of tweets
IdsOf(b) == [i \in 1..Len(b) |-> b[i].id]

\* the step is a call of handleTweet from the for-loop of checkMentions
HandlerCalled == ppc \in {"fetch", "delay"} /\ ppc' \in {"llm", "delay"}

\* C1: an id never marked processed is eligible: a call of handleTweet with it
\* adds it to processedTweets and goes on to handle it; an id already marked is
\* ineligible: a call with it returns at once and leaves processedTweets as it
\* was (marking twice is marking once); and no step removes an id from
\* processedTweets.
C1_ProcessedSetGate ==
    [][ /\ processedTweets \subseteq processedTweets'
        /\ HandlerCalled =>
             LET id == mentions'[idx'].id
             IN  IF id \in processedTweets
                 THEN /\ processedTweets' = processedTweets
                      /\ dispatched' = dispatched
                      /\ ppc' = "delay"
                 ELSE /\ processedTweets' = processedTweets \cup {id}
                      /\ dispatched' = Append(dispatched, id)
                      /\ ppc' = "llm" ]_vars

\* an id marked in an earlier cycle was delivered again and handleTweet returned at once
C1_Witness ==
    /\ ppc = "delay"
    /\ idx \in 1..Len(mentions)
    /\ mentions[idx].id \in processedAtStart
    /\ processedTweets = processedAtStart

\* the tweets of a page handleTweet goes on to handle, given the processed set
\* at the start of the cycle
Handled(batch, processed) ==
    LET Test(t) == /\ "retweet" \notin t.referenced_tweets
                   /\ t.author
                   /\ t.id \notin processed
    IN  IdsOf(SelectSeq(batch, Test))

\* C2 as stated: the ids dispatched in a cycle are exactly the fetched tweets
\* that are no retweet and not yet in the processed set, in fetch order.
C2_Original ==
    (ppc = "sleep" /\ cycleResult = "ok") =>
        LET Test(t) == "retweet" \notin t.referenced_tweets /\ t.id \notin processedAtStart
        IN  dispatched = IdsOf(SelectSeq(mentions, Test))

\* C2 (amended): the ids dispatched in a cycle are exactly the fetched tweets
\* that are no retweet, whose author is found in the users of the fetch result,
\* and that are not yet in the processed set, in fetch order.
C2_DispatchedExactly ==
    (ppc = "sleep" /\ cycleResult = "ok") =>
        dispatched = Handled(mentions, processedAtStart)

\* three fetched tweets, the second a retweet: the first and the third are dispatched
C2_Witness ==
    /\ ppc = "sleep"
    /\ cycleResult = "ok"
    /\ Len(mentions) = 3
    /\ "retweet" \in mentions[2].referenced_tweets
    /\ dispatched = <<mentions[1].id, mentions[3].id>>

\* the largest id of a non-empty page
MaxIdOf(b) == CHOOSE m \in {b[i].id : i \in 1..Len(b)} : \A i \in 1..Len(b) : b[i].id <= m

\* C3: after a cycle whose fetch returned a tweet, lastProcessedMentionId is the
\* largest id of the page, and every fetch passes lastProcessedMentionId as since_id.
C3_CursorAdvances ==
    /\ (ppc = "sleep" /\ cycleResult = "ok" /\ mentions # <<>>) =>
           lastProcessedMentionId = MaxIdOf(mentions)
    /\ (ppc = "fetch") => since_id = lastProcessedMentionId

\* C4: a cycle whose fetch throws leaves processedTweets and
\* lastProcessedMentionId as they were when the cycle began, dispatches nothing,
\* and returns to pollMentions, which awaits its interval timer.
C4_FetchThrowsIsHarmless ==
    (cycleResult = "fetchError") =>
        /\ processedTweets = processedAtStart
        /\ lastProcessedMentionId = since_id
        /\ dispatched = <<>>
        /\ ppc = "sleep"
        /\ pollTimerMs = PollInterval * 1000

\* the fetch of a later cycle threw, with ids already processed
C4_Witness ==
    /\ cycleResult = "fetchError"
    /\ ppc = "sleep"
    /\ processedTweets # {}

\* C5: when the handling of a tweet threw (in callLLM or in v2.reply), the cycle
\* still ends with every tweet of the page dispatched that was to be; and a
\* cycle in which something was caught ends with pollMentions awaiting its
\* interval timer, whose firing calls checkMentions again.
C5_FailureDoesNotAbort ==
    /\ []((pcaught # "none" /\ cycleResult # "running") =>
            /\ ppc = "sleep"
            /\ pollTimerMs = PollInterval * 1000
            /\ ENABLED PollTimerFires
            /\ cycleResult # "fetchError" => dispatched = Handled(mentions, processedAtStart))
    /\ [][(pcaught # "none" /\ ppc = "sleep" /\ ppc' # "sleep") =>
            (ppc' = "fetch" /\ cycleResult' = "running")]_vars

\* a tweet is being handled after the handling of an earlier one of the page threw
C5_Witness ==
    /\ ppc = "llm"
    /\ Len(dispatched) >= 2
    /\ pcaught \in {"handleTweet", "reply"}

\* C6 as stated: the sleep after a cycle in which an error was caught, in
\* callLLM or in v2.tweet, is 60 s; after a cycle without error it is the interval.
C6_Original ==
    (apc = "sleep") =>
        sleepMs = IF caught # "none" THEN RecoveryDelayMs ELSE AutonomousInterval * 1000

\* C6 (amended): the sleep after a cycle whose error reached the catch of the
\* loop body (callLLM threw) is 60 s; after a cycle without error, and after one
\* whose v2.tweet threw into the inner catch, it is the interval.
C6_RecoverySleep ==
    (apc = "sleep") =>
        sleepMs = IF caught = "cycle" THEN RecoveryDelayMs ELSE AutonomousInterval * 1000

\* callLLM threw and the poster sleeps 60 s
C6_Witness ==
    /\ apc = "sleep"
    /\ caught = "cycle"
    /\ sleepMs = RecoveryDelayMs

\* C7: the text of a v2.tweet call (the poster) or a v2.reply call (the
\* handler) in flight is never empty after trimming whitespace.
C7_NoBlankPublish ==
    /\ (apc = "publish") => Trim(aresponse) # <<>>
    /\ (ppc = "reply") => Trim(response) # <<>>

\* callLLM returned a text that is empty after trimming and the poster went to
\* sleep without calling v2.tweet
C7_Witness ==
    /\ apc = "sleep"
    /\ caught = "none"
    /\ ~sent

\* C8: whatever fails, each loop starts another cycle again and again.
C8_LoopsNeverEnd ==
    /\ []<>(apc = "select")
    /\ []<>(ppc = "fetch")

\* both loops sleep after a cycle that failed
C8_Witness ==
    /\ apc = "sleep" /\ caught = "cycle"
    /\ ppc = "sleep" /\ cycleResult = "fetchError"

\* the sum of the first n weights, in units of 1/DrawDenominator
Cumulative(opts, n) == SumWeights(opts, n) * DrawDenominator

\* C9 as stated: the selector returns the option whose bucket
\* [sum of the weights before it, that sum plus its weight) contains the draw.
C9_Original ==
    (selResult # NoThought) =>
        \E i \in 1..Len(selOptions) :
            /\ Cumulative(selOptions, i - 1) <= selRandom
            /\ selRandom < Cumulative(selOptions, i)
            /\ selResult = selOptions[i].prompt

\* C9 (amended): the selector returns the first option whose cumulative weight
\* is at least the draw: the buckets are closed at their upper end, so a draw
\* equal to the sum of the weights of the first i options selects option i and
\* a draw of 0 selects the first option.
C9_BucketOfDraw ==
    (selResult # NoThought) =>
        \E i \in 1..Len(selOptions) :
            /\ (i = 1 \/ Cumulative(selOptions, i - 1) < selRandom)
            /\ selRandom <= Cumulative(selOptions, i)
            /\ selResult = selOptions[i].prompt

\* options [{p1,4},{p2,1}] and the draw 0.99 * total: p2 is selected
C9_Witness ==
    /\ selOptions = << [prompt |-> "p1", weight |-> 4], [prompt |-> "p2", weight |-> 1] >>
    /\ selRandom * 100 = 99 * Cumulative(selOptions, 2)
    /\ selResult = "p2"

\* C10: once a stop has been requested, each loop eventually stops.
C10_StopSignal ==
    stopRequested ~> (apc = "stopped" /\ ppc = "stopped")

\* C11: a cycle of a loop starts only when the loop was just called or when its
\* previous cycle is over and the loop awaits the sleep that follows it; that
\* sleep is pending exactly from the end of a cycle to the start of the next,
\* and a loop is inside a cycle exactly between the two.
C11_NoOverlap ==
    /\ [](/\ (ppc = "sleep") <=> (pollTimerMs = PollInterval * 1000)
          /\ (ppc = "sleep") <=> (cycleResult \in {"ok", "fetchError"})
          /\ (ppc \in {"fetch", "llm", "reply", "delay"}) <=> (cycleResult = "running")
          /\ (apc = "sleep") <=> (sleepMs \in {AutonomousInterval * 1000, RecoveryDelayMs})
          /\ (apc \in {"select", "generate", "publish"}) <=> (sleepMs = 0 /\ apc # "idle"))
    /\ [][ /\ (ppc' = "fetch" /\ ppc # "fetch") => ppc \in {"idle", "sleep"}
           /\ (apc' = "select" /\ apc # "select") => apc \in {"idle", "sleep"} ]_vars

\* both loops are in a cycle that is not their first
C11_Witness ==
    /\ ppc = "fetch"
    /\ processedTweets # {}
    /\ apc = "select"
    /\ stopRequested = FALSE
    /\ idx = 0

C13_AtMostOncePerId ==
    \A id \in 1..MaxId : genCalls[id] <= 1 /\ replyCalls[id] <= 1

\* the call from outside is suspended in callLLM or v2.reply for an id, and the
\* poller, handed the same id meanwhile, has returned from handleTweet at the gate
C13_Witness ==
    /\ audit
    /\ epc \in {"llm", "reply"}
    /\ ppc = "delay"
    /\ idx \in 1..Len(mentions)
    /\ mentions[idx].id = eid
    /\ eid \notin {dispatched[i] : i \in 1..Len(dispatched)}
    /\ genCalls[eid] = 1

\* C14 as stated: a failure of callLLM leaves handleTweet and is caught by its
\* caller, so the outer catch of handleTweet never runs.
C14_Original ==
    pcaught # "handleTweet"

\* C14: a failure of v2.reply is caught by the inner catch of handleTweet and a
\* failure of callLLM by its outer catch; neither reaches checkMentions, whose
\* catch runs only when the fetch fails, and the cycle goes on to the delay
\* that follows the item.
C14_FailuresStayInHandler ==
    /\ []((pcaught = "checkMentions") <=> (cycleResult = "fetchError"))
    /\ [][ /\ (ppc = "llm" /\ pcaught' # pcaught) =>
                 (pcaught' = "handleTweet" /\ ppc' = "delay" /\ cycleResult' = "running")
           /\ (ppc = "reply" /\ pcaught' # pcaught) =>
                 (pcaught' = "reply" /\ ppc' = "delay" /\ cycleResult' = "running") ]_vars

\* callLLM has thrown for an item and checkMentions awaits the delay after it
C14_Witness ==
    /\ ppc = "delay"
    /\ pcaught = "handleTweet"
    /\ cycleResult = "running"
    /\ idx \in 1..Len(mentions)
    /\ mentions[idx].id \in processedTweets \ processedAtStart

\* C15: while callLLM or v2.reply is awaited for an id the id is in
\* processedTweets; no step takes an id out of processedTweets, so an id whose
\* handling failed stays in it; and the poller passes the gate of handleTweet
\* only with an id that is not in processedTweets, hence never with the id that
\* failed.
C15_MarkedBeforeGenerate ==
    /\ [](/\ ppc \in {"llm", "reply"} => mentions[idx].id \in processedTweets
          /\ epc \in {"llm", "reply"} => eid \in processedTweets
          /\ lastFailed # NoId => lastFailed \in processedTweets)
    /\ [][ /\ processedTweets \subseteq processedTweets'
           /\ dispatched' \notin {dispatched, <<>>} =>
                 /\ dispatched'[Len(dispatched')] \notin processedTweets
                 /\ dispatched'[Len(dispatched')] # lastFailed
                 /\ dispatched'[Len(dispatched')] \in processedTweets' ]_vars

\* the id whose handling failed in an earlier cycle has been returned again, and
\* handleTweet has returned at its gate
C15_Witness ==
    /\ lastFailed # NoId
    /\ ppc = "delay"
    /\ pcaught = "none"
    /\ idx \in 1..Len(mentions)
    /\ mentions[idx].id = lastFailed
    /\ dispatched = <<>>
    /\ epc = "idle"
    /\ genCalls[lastFailed] = 1
    /\ replyCalls[lastFailed] = 0

C17_PosterLeavesPollerState ==
    [][ /\ posterVars' # posterVars =>
              UNCHANGED <<processedTweets, lastProcessedMentionId, pollerVars>>
        /\ <<processedTweets, lastProcessedMentionId>>' # <<processedTweets, lastProcessedMentionId>> =>
              /\ ppc \in {"fetch", "delay"}
              /\ ppc' = "llm"
              /\ UNCHANGED posterVars ]_vars

\* the poster has sent a tweet, caught the failure of v2.tweet and sleeps, while
\* the poller, with ids in processedTweets, is suspended in callLLM
C17_Witness ==
    /\ apc = "sleep"
    /\ sent
    /\ caught = "publish"
    /\ ppc = "llm"
    /\ processedAtStart # {}
    /\ processedTweets # processedAtStart

\* C18: within a cycle the for-loop moves to another tweet, and handleTweet is
\* called for a second or later tweet of the page, only in the step in which the
\* 1 second timer that followed the previous call fires; and every return of
\* handleTweet starts that timer without moving the loop.
C18_DelayBetweenItems ==
    [][ /\ (idx' # idx /\ ppc # "fetch" /\ ppc' # "fetch") =>
              (ppc = "delay" /\ pollTimerMs = MentionDelayMs)
        /\ (dispatched' # dispatched /\ Len(dispatched') >= 2) =>
              (ppc = "delay" /\ pollTimerMs = MentionDelayMs)
        /\ ppc \in {"llm", "reply"} =>
              /\ idx' = idx
              /\ dispatched' = dispatched
              /\ ppc' \in {"reply", "delay"}
              /\ ppc' = "delay" => pollTimerMs' = MentionDelayMs ]_vars

\* the second tweet of a page has been handed to handleTweet, which awaits callLLM
C18_Witness ==
    /\ ppc = "llm"
    /\ Len(dispatched) = 2
    /\ idx >= 2
    /\ mentions[idx].id = dispatched[2]

\* C19: a tweet of the page that is no retweet and whose author is not in
\* includes.users is passed over: it is not handed to handleTweet, it is in
\* processedTweets only if it was there when the cycle began, and callLLM,
\* v2.reply and the 1 second delay are only ever awaited for a tweet that has an
\* author.  As it is not added to processedTweets it stays eligible: whenever the
\* loop reaches a tweet that has an author, is no retweet and is not in
\* processedTweets, handleTweet processes it.
C19_AuthorlessPassedOver ==
    /\ [](/\ \A i \in 1..Len(mentions) :
                (i < idx /\ ~mentions[i].author /\ "retweet" \notin mentions[i].referenced_tweets) =>
                    /\ mentions[i].id \notin {dispatched[k] : k \in 1..Len(dispatched)}
                    /\ mentions[i].id \in processedTweets => mentions[i].id \in processedAtStart
          /\ ppc \in {"llm", "reply", "delay"} =>
                /\ idx \in 1..Len(mentions)
                /\ mentions[idx].author
                /\ "retweet" \notin mentions[idx].referenced_tweets)
    /\ [][ (/\ idx' # idx
            /\ idx' \in 1..Len(mentions')
            /\ mentions'[idx'].id \notin processedTweets) =>
                 /\ dispatched' = Append(dispatched, mentions'[idx'].id)
                 /\ ppc' = "llm" ]_vars

\* a cycle is over in which a tweet without author, not a retweet and not yet
\* in processedTweets, was passed over and the tweet after it handled
C19_Witness ==
    /\ ppc = "sleep"
    /\ cycleResult = "ok"
    /\ Len(mentions) >= 2
    /\ ~mentions[1].author
    /\ "retweet" \notin mentions[1].referenced_tweets
    /\ mentions[1].id \notin processedTweets
    /\ dispatched = <<mentions[2].id>>

====
